---- MODULE Spec2Model ----
(***************************************************************************)
(* The saving ledger canister, in its three revisions:                     *)
(*   "plain" : src/unnamed/part_000 lines 1-222   (no authorization)       *)
(*   "owner" : src/unnamed/part_000 lines 224-368 (per-record owner)       *)
(*   "admin" : src/src/index.ts                   (admin + whitelist)      *)
(* A behaviour runs one revision, chosen in Init.  The canister serves one *)
(* call at a time, so every handler is one atomic action.                  *)
(*                                                                         *)
(* Time: ic.time() is in nanoseconds, and a day of 86_400_000_000_000 ns   *)
(* does not fit TLC's integers; the clock counts ticks, TicksPerDay to a   *)
(* day.  Amounts are integers (the float rounding of the canister is not   *)
(* modelled).                                                              *)
(***************************************************************************)
EXTENDS Integers, FiniteSets, Sequences, TLC

\* ---- bounds ----
MaxSavings == 1      \* createSaving calls in a behaviour
MaxTime == 1         \* the clock stops here
TicksPerDay == 1     \* ticks of the clock in one day
MaxAmount == 1       \* |amount| of a record stays within this

\* ---- inputs ----
Principals == {"p1", "p2", "p3"}
Usernames == {"alice", "bob"}
FundAmounts == {-1, 1}
\* a locked positive saving, and an unlocked one that starts below zero
Payloads == {[username |-> "alice", specifiedYear |-> 1, amount |-> 1, noOfDays |-> 1],
             [username |-> "bob", specifiedYear |-> 2, amount |-> -1, noOfDays |-> 0]}
\* the callers a revision tells apart: none, the owner and another, the
\* admin, a whitelisted account and another
Callers(v) == CASE v = "plain" -> {"p3"}
                [] v = "owner" -> {"p1", "p2"}
                [] OTHER -> Principals
\* the caller of a handler that never reads ic.caller()
Anyone == {"p3"}

None == <<>>                 \* Opt.None
Some(x) == <<x>>             \* Opt.Some
UndefinedKey == "undefined"  \* the key `saving.id` reads off a Result
NoArg == "-"                 \* an argument the call does not take

IdOf(n) == ToString(n)
IdInputs == {IdOf(n) : n \in 1..MaxSavings}
\* calculateApy(30, 100, 1) and the same with a zero divisor
ApyInputs == {[days |-> 30, amount |-> 100, specifiedyear |-> 1],
              [days |-> 30, amount |-> 100, specifiedyear |-> 0]}

VARIABLES variant, savingsStorage, adminPrincipal, whitelistedAccounts,
          now, nextId, last, created, deleted

vars == <<variant, savingsStorage, adminPrincipal, whitelistedAccounts,
          now, nextId, last, created, deleted>>

\* ---- Result<Saving, string> ----
Ok(v) == [kind |-> "Ok", value |-> v]
Err(k) == [kind |-> k, value |-> NoArg]

\* ---- StableBTreeMap ----
insert(map, k, v) == [x \in DOMAIN map \cup {k} |-> IF x = k THEN v ELSE map[x]]
remove(map, k) == [x \in DOMAIN map \ {k} |-> map[x]]
\* the keys in the map's order: the ids (by their number), then "undefined"
KeyOrder == [n \in 1..(MaxSavings + 1) |->
               IF n <= MaxSavings THEN IdOf(n) ELSE UndefinedKey]
values(map) ==
  LET keys == SelectSeq(KeyOrder, LAMBDA k : k \in DOMAIN map)
  IN [i \in 1..Len(keys) |-> map[keys[i]]]

\* the number n / d, kept as a fraction (no rounding); d = 0 is the Infinity
\* or NaN that a division by zero gives
Quotient(n, d) == [num |-> n, den |-> d]

\* the call just served: what was asked, by whom, when, and what came back
Call(op, caller, id, arg, result) ==
  [op |-> op, caller |-> caller, id |-> id, arg |-> arg, result |-> result]

\* a handler that only answers
Answer(op, caller, id, arg, result) ==
  /\ last' = Call(op, caller, id, arg, result)
  /\ UNCHANGED <<variant, savingsStorage, adminPrincipal, whitelistedAccounts,
                 now, nextId, created, deleted>>

\* a handler that writes the store and answers
Commit(op, caller, id, arg, result, store) ==
  /\ savingsStorage' = store
  /\ last' = Call(op, caller, id, arg, result)
  /\ UNCHANGED <<variant, adminPrincipal, whitelistedAccounts,
                 now, nextId, created, deleted>>

\* an uncaught exception: the canister traps and the call's writes are undone
Trap(op, caller, id, arg) == Answer(op, caller, id, arg, Err("Trap"))

\* uuidv4(): an id no earlier call has got
uuidv4 == IdOf(nextId)

\* ===================== revision "plain" =====================

getSavingByIdPlain(id) ==
  IF id \in DOMAIN savingsStorage THEN Ok(savingsStorage[id])
  ELSE Err("NotFound")

\* createSaving stamping updatedAt as the later handlers do
createSavingPlain_stamped(caller, payload) ==
  LET saving == [id |-> uuidv4, createdAt |-> now, updatedAt |-> Some(now),
                 username |-> payload.username,
                 specifiedYear |-> payload.specifiedYear,
                 amount |-> payload.amount, noOfDays |-> payload.noOfDays]
  IN /\ variant = "plain"
     /\ nextId <= MaxSavings
     /\ savingsStorage' = insert(savingsStorage, saving.id, saving)
     /\ nextId' = nextId + 1
     /\ created' = insert(created, saving.id, [owner |-> caller, createdAt |-> now])
     /\ last' = Call("createSaving", caller, NoArg, payload, Ok(saving))
     /\ UNCHANGED <<variant, adminPrincipal, whitelistedAccounts, now, deleted>>

createSavingPlain(caller, payload) ==
  LET saving == [id |-> uuidv4, createdAt |-> now, updatedAt |-> None,
                 username |-> payload.username,
                 specifiedYear |-> payload.specifiedYear,
                 amount |-> payload.amount, noOfDays |-> payload.noOfDays]
  IN /\ variant = "plain"
     /\ nextId <= MaxSavings
     /\ savingsStorage' = insert(savingsStorage, saving.id, saving)
     /\ nextId' = nextId + 1
     /\ created' = insert(created, saving.id, [owner |-> caller, createdAt |-> now])
     /\ last' = Call("createSaving", caller, NoArg, payload, Ok(saving))
     /\ UNCHANGED <<variant, adminPrincipal, whitelistedAccounts, now, deleted>>

readSavingPlain(caller, id) ==
  /\ variant = "plain"
  /\ Answer("getSavingById", caller, id, NoArg, getSavingByIdPlain(id))

deleteSavingPlain(caller, id) ==
  /\ variant = "plain"
  /\ IF id \in DOMAIN savingsStorage
     THEN /\ savingsStorage' = remove(savingsStorage, id)
          /\ deleted' = deleted \cup {id}
          /\ last' = Call("deleteSaving", caller, id, NoArg, Ok(savingsStorage[id]))
          /\ UNCHANGED <<variant, adminPrincipal, whitelistedAccounts, now,
                         nextId, created>>
     ELSE Answer("deleteSaving", caller, id, NoArg, Err("NotFound"))

\* updateSaving spreading a payload that carries createdAt over the record
updateSavingPlain_restamp(caller, id, updatedPayload) ==
  LET saving == getSavingByIdPlain(id)
      updatedSaving == [saving.value EXCEPT
                          !.username = updatedPayload.username,
                          !.specifiedYear = updatedPayload.specifiedYear,
                          !.amount = updatedPayload.amount,
                          !.noOfDays = updatedPayload.noOfDays,
                          !.createdAt = now,
                          !.updatedAt = Some(now)]
  IN /\ variant = "plain"
     /\ IF saving.kind # "Ok"
        THEN Answer("updateSaving", caller, id, updatedPayload, Err("NotFound"))
        ELSE Commit("updateSaving", caller, id, updatedPayload, Ok(updatedSaving),
                    insert(savingsStorage, id, updatedSaving))

updateSavingPlain(caller, id, updatedPayload) ==
  LET saving == getSavingByIdPlain(id)
      updatedSaving == [saving.value EXCEPT
                          !.username = updatedPayload.username,
                          !.specifiedYear = updatedPayload.specifiedYear,
                          !.amount = updatedPayload.amount,
                          !.noOfDays = updatedPayload.noOfDays,
                          !.updatedAt = Some(now)]
  IN /\ variant = "plain"
     /\ IF saving.kind # "Ok"
        THEN Answer("updateSaving", caller, id, updatedPayload, Err("NotFound"))
        ELSE Commit("updateSaving", caller, id, updatedPayload, Ok(updatedSaving),
                    insert(savingsStorage, id, updatedSaving))

fundSavingPlain(caller, id, amount) ==
  LET saving == getSavingByIdPlain(id)
      updatedSaving == [saving.value EXCEPT !.amount = saving.value.amount + amount,
                                            !.updatedAt = Some(now)]
  IN /\ variant = "plain"
     /\ IF saving.kind # "Ok"
        THEN Answer("fundSaving", caller, id, amount, Err("NotFound"))
        ELSE /\ updatedSaving.amount \in -MaxAmount..MaxAmount
             /\ Commit("fundSaving", caller, id, amount, Ok(updatedSaving),
                       insert(savingsStorage, id, updatedSaving))

withdrawSavingPlain(caller, id) ==
  LET saving == getSavingByIdPlain(id)
      updatedSaving == [saving.value EXCEPT !.amount = 0, !.updatedAt = Some(now)]
  IN /\ variant = "plain"
     /\ IF saving.kind # "Ok"
        THEN Answer("withdrawSaving", caller, id, NoArg, Err("NotFound"))
        ELSE Commit("withdrawSaving", caller, id, NoArg, Ok(updatedSaving),
                    insert(savingsStorage, id, updatedSaving))

\* transferSaving starting the record's lock afresh, with no days left
transferSavingPlain_newLock(caller, id, recipient) ==
  LET saving == getSavingByIdPlain(id)
      updatedSaving == [saving.value EXCEPT !.username = recipient,
                                            !.noOfDays = 0,
                                            !.updatedAt = Some(now)]
  IN /\ variant = "plain"
     /\ IF saving.kind # "Ok"
        THEN Answer("transferSaving", caller, id, recipient, Err("NotFound"))
        ELSE Commit("transferSaving", caller, id, recipient, Ok(updatedSaving),
                    insert(savingsStorage, id, updatedSaving))

transferSavingPlain(caller, id, recipient) ==
  LET saving == getSavingByIdPlain(id)
      updatedSaving == [saving.value EXCEPT !.username = recipient,
                                            !.updatedAt = Some(now)]
  IN /\ variant = "plain"
     /\ IF saving.kind # "Ok"
        THEN Answer("transferSaving", caller, id, recipient, Err("NotFound"))
        ELSE Commit("transferSaving", caller, id, recipient, Ok(updatedSaving),
                    insert(savingsStorage, id, updatedSaving))

getAllSavingsPlain(caller) ==
  /\ variant = "plain"
  /\ Answer("getAllSavings", caller, NoArg, NoArg, Ok(values(savingsStorage)))

calculateApyPlain(caller, days, amount, specifiedyear) ==
  LET quoficientOfDays == Quotient(days, specifiedyear)
  IN /\ variant = "plain"
     /\ Answer("calculateApy", caller, NoArg,
               [days |-> days, amount |-> amount, specifiedyear |-> specifiedyear],
               Ok(Quotient(quoficientOfDays.num * amount, quoficientOfDays.den)))

NextPlain ==
  \E caller \in Callers("plain") :
    \/ getAllSavingsPlain(caller)
    \/ \E a \in ApyInputs : calculateApyPlain(caller, a.days, a.amount, a.specifiedyear)
    \/ \E payload \in Payloads : createSavingPlain(caller, payload)
    \/ \E id \in IdInputs : readSavingPlain(caller, id)
    \/ \E id \in IdInputs : deleteSavingPlain(caller, id)
    \/ \E id \in IdInputs, payload \in Payloads : updateSavingPlain(caller, id, payload)
    \/ \E id \in IdInputs, amount \in FundAmounts : fundSavingPlain(caller, id, amount)
    \/ \E id \in IdInputs : withdrawSavingPlain(caller, id)
    \/ \E id \in IdInputs, recipient \in Usernames : transferSavingPlain(caller, id, recipient)

\* ===================== revision "owner" =====================

\* getSavingById answering every caller it does not serve the same way
getSavingByIdOwner_conflated(caller, id) ==
  IF id \in DOMAIN savingsStorage /\ savingsStorage[id].owner = caller
  THEN Ok(savingsStorage[id])
  ELSE Err("Unauthorized")

getSavingByIdOwner(caller, id) ==
  IF id \in DOMAIN savingsStorage
  THEN IF savingsStorage[id].owner = caller THEN Ok(savingsStorage[id])
       ELSE Err("Unauthorized")
  ELSE Err("NotFound")

createSavingOwner(caller, payload) ==
  LET saving == [id |-> uuidv4, owner |-> caller, createdAt |-> now,
                 updatedAt |-> None,
                 username |-> payload.username,
                 specifiedYear |-> payload.specifiedYear,
                 amount |-> payload.amount, noOfDays |-> payload.noOfDays]
  IN /\ variant = "owner"
     /\ nextId <= MaxSavings
     /\ savingsStorage' = insert(savingsStorage, saving.id, saving)
     /\ nextId' = nextId + 1
     /\ created' = insert(created, saving.id, [owner |-> caller, createdAt |-> now])
     /\ last' = Call("createSaving", caller, NoArg, payload, Ok(saving))
     /\ UNCHANGED <<variant, adminPrincipal, whitelistedAccounts, now, deleted>>

readSavingOwner(caller, id) ==
  /\ variant = "owner"
  /\ Answer("getSavingById", caller, id, NoArg, getSavingByIdOwner(caller, id))

deleteSavingOwner(caller, id) ==
  /\ variant = "owner"
  /\ IF id \in DOMAIN savingsStorage
     THEN IF savingsStorage[id].owner # caller
          THEN Answer("deleteSaving", caller, id, NoArg, Err("Unauthorized"))
          ELSE /\ savingsStorage' = remove(savingsStorage, id)
               /\ deleted' = deleted \cup {id}
               /\ last' = Call("deleteSaving", caller, id, NoArg,
                               Ok(savingsStorage[id]))
               /\ UNCHANGED <<variant, adminPrincipal, whitelistedAccounts, now,
                              nextId, created>>
     ELSE Answer("deleteSaving", caller, id, NoArg, Err("NotFound"))

\* `if (saving.Ok)` takes every failure of getSavingById, the refusal of a
\* caller who is not the owner included, to the "not found" answer below it
fundSavingOwner(caller, id, amount) ==
  LET saving == getSavingByIdOwner(caller, id)
      updatedSaving == [saving.value EXCEPT !.amount = saving.value.amount + amount]
  IN /\ variant = "owner"
     /\ IF saving.kind = "Ok"
        THEN IF saving.value.owner # caller
             THEN Answer("fundSaving", caller, id, amount, Err("Unauthorized"))
             ELSE /\ updatedSaving.amount \in -MaxAmount..MaxAmount
                  /\ Commit("fundSaving", caller, id, amount, Ok(updatedSaving),
                            insert(savingsStorage, updatedSaving.id, updatedSaving))
        ELSE Answer("fundSaving", caller, id, amount, Err("NotFound"))

withdrawSavingOwner(caller, id) ==
  LET saving == getSavingByIdOwner(caller, id)
      updatedSaving == [saving.value EXCEPT !.amount = 0]
  IN /\ variant = "owner"
     /\ IF saving.kind = "Ok"
        THEN IF saving.value.owner # caller
             THEN Answer("withdrawSaving", caller, id, NoArg, Err("Unauthorized"))
             ELSE Commit("withdrawSaving", caller, id, NoArg, Ok(updatedSaving),
                         insert(savingsStorage, updatedSaving.id, updatedSaving))
        ELSE Answer("withdrawSaving", caller, id, NoArg, Err("NotFound"))

NextOwner ==
  \E caller \in Callers("owner") :
    \/ \E payload \in Payloads : createSavingOwner(caller, payload)
    \/ \E id \in IdInputs : readSavingOwner(caller, id)
    \/ \E id \in IdInputs : deleteSavingOwner(caller, id)
    \/ \E id \in IdInputs, amount \in FundAmounts : fundSavingOwner(caller, id, amount)
    \/ \E id \in IdInputs : withdrawSavingOwner(caller, id)

\* ===================== revision "admin" =====================

isWhitelisted(id) == id \in whitelistedAccounts

\* true while ic.time() is before the end of the lock
hasTimePassed(startTime, noOfDays) ==
  LET nanoseconds == noOfDays * TicksPerDay
      endTimeInNanoseconds == startTime + nanoseconds
  IN now < endTimeInNanoseconds

getSavingByIdAdmin(id) ==
  IF id \in DOMAIN savingsStorage THEN Ok(savingsStorage[id])
  ELSE Err("NotFound")

createSavingAdmin(caller, payload) ==
  LET saving == [id |-> uuidv4, createdAt |-> now, updatedAt |-> None,
                 username |-> payload.username,
                 specifiedYear |-> payload.specifiedYear,
                 amount |-> payload.amount, noOfDays |-> payload.noOfDays]
  IN /\ variant = "admin"
     /\ nextId <= MaxSavings
     /\ savingsStorage' = insert(savingsStorage, saving.id, saving)
     /\ nextId' = nextId + 1
     /\ created' = insert(created, saving.id, [owner |-> caller, createdAt |-> now])
     /\ last' = Call("createSaving", caller, NoArg, payload, Ok(saving))
     /\ UNCHANGED <<variant, adminPrincipal, whitelistedAccounts, now, deleted>>

readSavingAdmin(caller, id) ==
  /\ variant = "admin"
  /\ Answer("getSavingById", caller, id, NoArg, getSavingByIdAdmin(id))

\* deleteSaving without the test of the caller
deleteSavingAdmin_anyCaller(caller, id) ==
  /\ variant = "admin"
  /\ IF id \in DOMAIN savingsStorage
     THEN /\ savingsStorage' = remove(savingsStorage, id)
          /\ deleted' = deleted \cup {id}
          /\ last' = Call("deleteSaving", caller, id, NoArg, Ok(savingsStorage[id]))
          /\ UNCHANGED <<variant, adminPrincipal, whitelistedAccounts, now,
                         nextId, created>>
     ELSE Answer("deleteSaving", caller, id, NoArg, Err("NotFound"))

deleteSavingAdmin(caller, id) ==
  /\ variant = "admin"
  /\ IF caller # adminPrincipal
     THEN Answer("deleteSaving", caller, id, NoArg, Err("Unauthorized"))
     ELSE IF id \in DOMAIN savingsStorage
          THEN /\ savingsStorage' = remove(savingsStorage, id)
               /\ deleted' = deleted \cup {id}
               /\ last' = Call("deleteSaving", caller, id, NoArg,
                               Ok(savingsStorage[id]))
               /\ UNCHANGED <<variant, adminPrincipal, whitelistedAccounts, now,
                              nextId, created>>
          ELSE Answer("deleteSaving", caller, id, NoArg, Err("NotFound"))

\* `saving` is the Result of getSavingById, so the key `saving.id` of the insert
\* is undefined: the map either refuses a key that is no string (the call
\* traps) or stores the record under the text "undefined"
fundSavingAdmin(caller, id, amount) ==
  LET saving == getSavingByIdAdmin(id)
      updatedSaving == [saving.value EXCEPT !.amount = saving.value.amount + amount]
  IN /\ variant = "admin"
     /\ IF saving.kind # "Ok"
        THEN Answer("fundSaving", caller, id, amount, Err("NotFound"))
        ELSE /\ updatedSaving.amount \in -MaxAmount..MaxAmount
             /\ \/ Trap("fundSaving", caller, id, amount)
                \/ Commit("fundSaving", caller, id, amount, Ok(updatedSaving),
                          insert(savingsStorage, UndefinedKey, updatedSaving))

\* withdrawSaving storing the emptied record before it tests the lock
withdrawSavingAdmin_writeFirst(caller, id) ==
  /\ variant = "admin"
  /\ IF caller = adminPrincipal \/ isWhitelisted(caller)
     THEN IF id \notin DOMAIN savingsStorage
          THEN Answer("withdrawSaving", caller, id, NoArg, Err("NotFound"))
          ELSE LET saving == savingsStorage[id]
                   updatedSaving == [saving EXCEPT !.amount = 0]
               IN IF ~hasTimePassed(saving.createdAt, saving.noOfDays)
                  THEN Commit("withdrawSaving", caller, id, NoArg, Err("Locked"),
                              insert(savingsStorage, saving.id, updatedSaving))
                  ELSE Trap("withdrawSaving", caller, id, NoArg)
     ELSE Answer("withdrawSaving", caller, id, NoArg, Err("Unauthorized"))

\* Past the lock test `saving` is the record the match hands over, and
\* `saving.unwrap()` calls a field the record does not have: a TypeError, the
\* call traps, and lines 165-170 (amount: 0, the insert, the Ok) never run.
withdrawSavingAdmin(caller, id) ==
  /\ variant = "admin"
  /\ IF caller = adminPrincipal \/ isWhitelisted(caller)
     THEN IF id \notin DOMAIN savingsStorage
          THEN Answer("withdrawSaving", caller, id, NoArg, Err("NotFound"))
          ELSE LET saving == savingsStorage[id]
               IN IF ~hasTimePassed(saving.createdAt, saving.noOfDays)
                  THEN Answer("withdrawSaving", caller, id, NoArg, Err("Locked"))
                  ELSE Trap("withdrawSaving", caller, id, NoArg)
     ELSE Answer("withdrawSaving", caller, id, NoArg, Err("Unauthorized"))

\* isWhitelisted adding the id it was asked about to the list
isWhitelistedAdmin_push(caller, id) ==
  /\ variant = "admin"
  /\ whitelistedAccounts' = whitelistedAccounts \cup {id}
  /\ last' = Call("isWhitelisted", caller, id, NoArg, Ok(isWhitelisted(id)))
  /\ UNCHANGED <<variant, savingsStorage, adminPrincipal, now, nextId,
                 created, deleted>>

\* the $query isWhitelisted, called from outside
isWhitelistedAdmin(caller, id) ==
  /\ variant = "admin"
  /\ Answer("isWhitelisted", caller, id, NoArg, Ok(isWhitelisted(id)))

\* the $query hasTimePassed, called from outside
hasTimePassedAdmin(caller, startTime, noOfDays) ==
  /\ variant = "admin"
  /\ Answer("hasTimePassed", caller, NoArg,
            [startTime |-> startTime, noOfDays |-> noOfDays],
            Ok(hasTimePassed(startTime, noOfDays)))

getAllSavingsAdmin(caller) ==
  /\ variant = "admin"
  /\ Answer("getAllSavings", caller, NoArg, NoArg, Ok(values(savingsStorage)))

calculateApyAdmin(caller, days, amount, specifiedyear) ==
  LET quoficientOfDays == Quotient(days, specifiedyear)
  IN /\ variant = "admin"
     /\ Answer("calculateApy", caller, NoArg,
               [days |-> days, amount |-> amount, specifiedyear |-> specifiedyear],
               Ok(Quotient(quoficientOfDays.num * amount, quoficientOfDays.den)))


\* only deleteSaving and withdrawSaving read ic.caller(): one caller stands
\* for all callers of the other handlers
NextAdmin ==
  \/ \E caller \in Anyone :
       \/ getAllSavingsAdmin(caller)
       \/ \E a \in ApyInputs : calculateApyAdmin(caller, a.days, a.amount, a.specifiedyear)
       \/ \E id \in {"p2", "p3"} : isWhitelistedAdmin(caller, id)
       \/ \E noOfDays \in {1} : hasTimePassedAdmin(caller, 0, noOfDays)
       \/ \E payload \in Payloads : createSavingAdmin(caller, payload)
       \/ \E id \in IdInputs \cup {UndefinedKey} : readSavingAdmin(caller, id)
       \/ \E id \in IdInputs \cup {UndefinedKey}, amount \in FundAmounts :
            fundSavingAdmin(caller, id, amount)
  \/ \E caller \in Callers("admin") :
       \/ \E id \in IdInputs \cup {UndefinedKey} : deleteSavingAdmin(caller, id)
       \/ \E id \in IdInputs \cup {UndefinedKey} : withdrawSavingAdmin(caller, id)

\* ===================== the clock =====================

\* ic.time() between two calls: it never goes back
Tick ==
  /\ now < MaxTime
  /\ now' = now + 1
  /\ UNCHANGED <<variant, savingsStorage, adminPrincipal, whitelistedAccounts,
                 nextId, last, created, deleted>>

\* ===================== the canister =====================

\* init(admin, whitelist), run once at deployment.  Principal.fromText takes
\* the canonical text of a principal only, and toString() gives it back.
init(admin, whitelist) ==
  [adminPrincipal |-> admin, whitelistedAccounts |-> whitelist]

Unset == "unset"     \* the revision has no such variable

Init ==
  /\ variant \in {"plain", "owner", "admin"}
  /\ savingsStorage = <<>>
  /\ IF variant = "admin"
     THEN /\ adminPrincipal = init("p1", {"p2"}).adminPrincipal
          /\ whitelistedAccounts = init("p1", {"p2"}).whitelistedAccounts
     ELSE /\ adminPrincipal = Unset
          /\ whitelistedAccounts = {}
  /\ now = 0
  /\ nextId = 1
  /\ last = Call("deploy", NoArg, NoArg, NoArg, Ok(NoArg))
  /\ created = <<>>
  /\ deleted = {}

Next == NextPlain \/ NextOwner \/ NextAdmin \/ Tick

Spec == Init /\ [][Next]_vars

\* ===================== properties =====================

\* a step that serves a call (the clock stands still while a handler runs)
IsCall == now' = now

\* the end of a record's lock: createdAt + noOfDays days
LockEnd(r) == r.createdAt + r.noOfDays * TicksPerDay

\* may `caller` withdraw the record under `id`, by the revision's policy
MayWithdraw(caller, id) ==
  CASE variant = "owner" -> savingsStorage[id].owner = caller
    [] variant = "admin" -> caller = adminPrincipal \/ caller \in whitelistedAccounts
    [] OTHER -> TRUE

\* C1: a withdrawSaving served before the record's lock end answers Locked and
\* leaves the record's amount as it was, whoever calls.
C1_TimeLockSafety ==
  [][(/\ IsCall
      /\ last'.op = "withdrawSaving"
      /\ last'.id \in DOMAIN savingsStorage
      /\ now < LockEnd(savingsStorage[last'.id]))
     => (/\ last'.result.kind = "Locked"
         /\ last'.id \in DOMAIN savingsStorage'
         /\ savingsStorage'[last'.id].amount = savingsStorage[last'.id].amount)]_vars

\* C2: a withdrawSaving by a caller the policy admits, served at or after the
\* record's lock end, succeeds and leaves the record under id with amount 0.
C2_Unlock ==
  [][(/\ IsCall
      /\ last'.op = "withdrawSaving"
      /\ last'.id \in DOMAIN savingsStorage
      /\ MayWithdraw(last'.caller, last'.id)
      /\ now >= LockEnd(savingsStorage[last'.id]))
     => (/\ last'.result.kind = "Ok"
         /\ last'.id \in DOMAIN savingsStorage'
         /\ savingsStorage'[last'.id].amount = 0)]_vars

\* C3: in the ownership revision, getSavingById, fundSaving, withdrawSaving and
\* deleteSaving called on an existing record by anyone but its owner answer
\* Unauthorized (and so never NotFound).
C3_OwnershipPolicy ==
  (/\ variant = "owner"
   /\ last.op \in {"getSavingById", "fundSaving", "withdrawSaving", "deleteSaving"}
   /\ last.id \in DOMAIN savingsStorage
   /\ savingsStorage[last.id].owner # last.caller)
  => last.result.kind = "Unauthorized"

\* C4: in the admin revision, deleteSaving refuses every caller but the admin
\* (Unauthorized), a record leaves the store only in a deleteSaving of the
\* admin, and withdrawSaving answers Unauthorized exactly to the callers that
\* are neither the admin nor whitelisted.
C4_AdminWhitelistPolicy ==
  [][(variant = "admin" /\ IsCall)
     => (/\ (last'.op = "deleteSaving" /\ last'.caller # adminPrincipal)
              => last'.result.kind = "Unauthorized"
         /\ (DOMAIN savingsStorage \ DOMAIN savingsStorage' # {})
              => (/\ last'.op = "deleteSaving"
                  /\ last'.caller = adminPrincipal
                  /\ last'.result.kind = "Ok"
                  /\ DOMAIN savingsStorage \ DOMAIN savingsStorage' = {last'.id})
         /\ last'.op = "withdrawSaving"
              => (last'.result.kind = "Unauthorized"
                  <=> ~(\/ last'.caller = adminPrincipal
                        \/ last'.caller \in whitelistedAccounts)))]_vars

\* the admin has deleted a record and a whitelisted caller's withdrawSaving was
\* let through to the lock test
C4_Witness ==
  /\ variant = "admin"
  /\ deleted # {}
  /\ last.op = "withdrawSaving"
  /\ last.caller \in whitelistedAccounts
  /\ last.caller # adminPrincipal
  /\ last.result.kind = "Locked"

\* C5: a call that answers NotFound, Unauthorized or Locked leaves the record
\* store as it was before the call.
C5_NoPartialWrites ==
  [][(IsCall /\ last'.result.kind \in {"NotFound", "Unauthorized", "Locked"})
     => savingsStorage' = savingsStorage]_vars

\* a withdrawSaving refused as Locked on a record that is in the store
C5_Witness ==
  /\ last.op = "withdrawSaving"
  /\ last.result.kind = "Locked"
  /\ last.id \in DOMAIN savingsStorage

\* C6: every record in the store has amount >= 0.
C6_NonNegativity ==
  \A k \in DOMAIN savingsStorage : savingsStorage[k].amount >= 0

\* C7: every stored record carries the id, the createdAt and (in the ownership
\* revision) the owner that createSaving gave the record of that id, and the
\* record createSaving stored under an id still has that id.
C7_ImmutableIdentity ==
  /\ \A k \in DOMAIN savingsStorage :
       LET r == savingsStorage[k]
       IN /\ r.id \in DOMAIN created
          /\ r.createdAt = created[r.id].createdAt
          /\ variant = "owner" => r.owner = created[r.id].owner
  /\ \A k \in DOMAIN created \cap DOMAIN savingsStorage : savingsStorage[k].id = k

\* a record updated at a later time than it was created
C7_Witness ==
  /\ last.op \in {"updateSaving", "fundSaving", "withdrawSaving", "transferSaving"}
  /\ last.result.kind = "Ok"
  /\ last.id \in DOMAIN savingsStorage
  /\ now > savingsStorage[last.id].createdAt

\* C8: an id that deleteSaving has removed is in the store no more, and
\* getSavingById of it answers NotFound.
C8_DeletionFinality ==
  /\ deleted \cap DOMAIN savingsStorage = {}
  /\ (last.op = "getSavingById" /\ last.id \in deleted)
       => last.result.kind = "NotFound"

\* C9: createSaving succeeds, and a getSavingById of the returned id by the same
\* caller right after it returns the payload's username, specifiedYear, amount
\* and noOfDays, no updatedAt and (ownership revision) the caller as owner.
C9_CreateGetRoundTrip ==
  [][IsCall
     => (/\ last'.op = "createSaving" => last'.result.kind = "Ok"
         /\ (/\ last.op = "createSaving"
             /\ last'.op = "getSavingById"
             /\ last'.id = last.result.value.id
             /\ last'.caller = last.caller)
            => (/\ last'.result.kind = "Ok"
                /\ last'.result.value.username = last.arg.username
                /\ last'.result.value.specifiedYear = last.arg.specifiedYear
                /\ last'.result.value.amount = last.arg.amount
                /\ last'.result.value.noOfDays = last.arg.noOfDays
                /\ last'.result.value.updatedAt = None
                /\ variant = "owner"
                     => last'.result.value.owner = last.caller))]_vars

\* getSavingById has returned a record made at this instant and never touched
C9_Witness ==
  /\ last.op = "getSavingById"
  /\ last.result.kind = "Ok"
  /\ last.result.value.createdAt = now
  /\ last.result.value.updatedAt = None
  /\ last.result.value.id = last.id

\* C10: a fundSaving(id, delta) that succeeds leaves under id a record whose
\* amount is the old amount plus delta, and a getSavingById(id) that follows
\* returns that amount.
C10_FundEffect ==
  [][IsCall
     => (/\ (last'.op = "fundSaving" /\ last'.result.kind = "Ok")
              => (/\ last'.id \in DOMAIN savingsStorage'
                  /\ savingsStorage'[last'.id].amount
                       = savingsStorage[last'.id].amount + last'.arg)
         /\ (/\ last.op = "fundSaving" /\ last.result.kind = "Ok"
             /\ last'.op = "getSavingById" /\ last'.id = last.id
             /\ last'.caller = last.caller)
              => (/\ last'.result.kind = "Ok"
                  /\ last'.result.value.amount = last.result.value.amount))]_vars

\* the handlers that change a record
Mutators == {"updateSaving", "fundSaving", "withdrawSaving", "transferSaving"}

\* C11: a fundSaving, withdrawSaving, updateSaving or transferSaving that
\* succeeds leaves the record under its id with updatedAt present and equal to
\* the time of the call (so updatedAt is absent only on a record none of them
\* has touched).
C11_UpdatedAtStamping ==
  [][(IsCall /\ last'.op \in Mutators /\ last'.result.kind = "Ok")
     => (/\ last'.id \in DOMAIN savingsStorage'
         /\ savingsStorage'[last'.id].updatedAt = Some(now))]_vars

\* C12: no call changes the noOfDays, and so the lock end, of a record.
C12_ImmutableLockDuration ==
  [][IsCall
     => \A k \in DOMAIN savingsStorage', j \in DOMAIN savingsStorage :
          savingsStorage'[k].id = savingsStorage[j].id
            => (/\ savingsStorage'[k].noOfDays = savingsStorage[j].noOfDays
                /\ LockEnd(savingsStorage'[k]) = LockEnd(savingsStorage[j]))]_vars

\* C12 as amended: fundSaving, withdrawSaving and transferSaving (and every
\* call but a successful updateSaving) leave a record's noOfDays and lock end
\* as they were; a successful updateSaving(id, payload) leaves the record
\* under id with the payload's noOfDays.
C12_LockDurationAmended ==
  [][IsCall
     => \A k \in DOMAIN savingsStorage', j \in DOMAIN savingsStorage :
          savingsStorage'[k].id = savingsStorage[j].id
            => IF last'.op = "updateSaving" /\ last'.result.kind = "Ok"
                  /\ k = last'.id
               THEN savingsStorage'[k].noOfDays = last'.arg.noOfDays
               ELSE /\ savingsStorage'[k].noOfDays = savingsStorage[j].noOfDays
                    /\ LockEnd(savingsStorage'[k]) = LockEnd(savingsStorage[j])]_vars

\* a transferSaving has gone through on a record that is under a lock of a day
C12_Witness ==
  /\ last.op = "transferSaving"
  /\ last.result.kind = "Ok"
  /\ last.id \in DOMAIN savingsStorage
  /\ savingsStorage[last.id].noOfDays = 1
  /\ savingsStorage[last.id].username = last.arg

\* C13: calculateApy answers a failure when specifiedYear is 0, and otherwise
\* succeeds with (days / specifiedYear) * amount; it leaves the store alone.
C13_ZeroDivisor ==
  [][(IsCall /\ last'.op = "calculateApy")
     => (/\ IF last'.arg.specifiedyear = 0
            THEN last'.result.kind # "Ok"
            ELSE /\ last'.result.kind = "Ok"
                 /\ last'.result.value.den # 0
                 /\ last'.result.value.num * last'.arg.specifiedyear
                      = last'.arg.days * last'.arg.amount * last'.result.value.den
         /\ savingsStorage' = savingsStorage)]_vars

\* C14: the admin and the whitelist are those init set at deployment, and no
\* call changes either.
C14_WriteOnceConfiguration ==
  /\ variant = "admin"
       => (/\ adminPrincipal = init("p1", {"p2"}).adminPrincipal
           /\ whitelistedAccounts = init("p1", {"p2"}).whitelistedAccounts)
  /\ [][/\ adminPrincipal' = adminPrincipal
        /\ whitelistedAccounts' = whitelistedAccounts]_vars

\* the admin revision after a deletion, a funding and a question to the list
C14_Witness ==
  /\ variant = "admin"
  /\ deleted # {}
  /\ UndefinedKey \in DOMAIN savingsStorage
  /\ last.op = "isWhitelisted"
  /\ last.result.value = TRUE
  /\ adminPrincipal = "p1"
  /\ whitelistedAccounts = {"p2"}

\* C15: getAllSavings succeeds with exactly the records of the store: every
\* record created and not deleted since is in the answer once, and no deleted
\* record is in it.
C15_GetAllSavings ==
  last.op = "getAllSavings"
  => (/\ last.result.kind = "Ok"
      /\ LET all == last.result.value
         IN /\ Len(all) = Cardinality(DOMAIN savingsStorage)
            /\ \A k \in DOMAIN savingsStorage :
                 \E i \in 1..Len(all) : all[i] = savingsStorage[k]
            /\ \A id \in DOMAIN created \ deleted :
                 Cardinality({i \in 1..Len(all) : all[i].id = id}) = 1
            /\ \A id \in deleted :
                 \A i \in 1..Len(all) : all[i].id # id)

\* C16: a successful fund, withdraw, update or transfer on id keeps the keys
\* of the store and every other record; a successful withdraw keeps the record
\* and changes its amount (to 0) and updatedAt only; createSaving adds one key
\* and deleteSaving removes the key id, both leaving the other records.
C16_SingleRecordEffect ==
  [][(IsCall /\ last'.result.kind = "Ok")
     => (/\ last'.op \in Mutators
              => (/\ DOMAIN savingsStorage' = DOMAIN savingsStorage
                  /\ \A k \in DOMAIN savingsStorage \ {last'.id} :
                       savingsStorage'[k] = savingsStorage[k])
         /\ last'.op = "withdrawSaving"
              => (/\ last'.id \in DOMAIN savingsStorage'
                  /\ savingsStorage'[last'.id]
                       = [savingsStorage[last'.id] EXCEPT
                            !.amount = 0,
                            !.updatedAt = savingsStorage'[last'.id].updatedAt])
         /\ last'.op = "createSaving"
              => (/\ last'.result.value.id \notin DOMAIN savingsStorage
                  /\ DOMAIN savingsStorage'
                       = DOMAIN savingsStorage \cup {last'.result.value.id}
                  /\ \A k \in DOMAIN savingsStorage :
                       savingsStorage'[k] = savingsStorage[k])
         /\ last'.op = "deleteSaving"
              => (/\ last'.id \in DOMAIN savingsStorage
                  /\ DOMAIN savingsStorage' = DOMAIN savingsStorage \ {last'.id}
                  /\ \A k \in DOMAIN savingsStorage' :
                       savingsStorage'[k] = savingsStorage[k]))]_vars

\* C17: every entry of the store is keyed by the id of the record it holds.
C17_KeyIdAgreement ==
  \A k \in DOMAIN savingsStorage : savingsStorage[k].id = k

\* does the revision's test of the caller let `caller` through to the lookup
PassesAuthorization(op, caller) ==
  IF variant = "admin"
  THEN CASE op = "deleteSaving" -> caller = adminPrincipal
         [] op = "withdrawSaving" ->
              caller = adminPrincipal \/ caller \in whitelistedAccounts
         [] OTHER -> TRUE
  ELSE TRUE

\* C18: getSavingById, updateSaving, fundSaving, withdrawSaving, transferSaving
\* and deleteSaving of an id the store has no entry for, by a caller the
\* revision's test lets through, answer NotFound and make no entry.
C18_AbsentId ==
  [][(/\ IsCall
      /\ last'.op \in Mutators \cup {"getSavingById", "deleteSaving"}
      /\ last'.id \notin DOMAIN savingsStorage
      /\ PassesAuthorization(last'.op, last'.caller))
     => (/\ last'.result.kind = "NotFound"
         /\ savingsStorage' = savingsStorage)]_vars

\* a whitelisted caller's withdrawSaving of an id that is not in the store
C18_Witness ==
  /\ variant = "admin"
  /\ last.op = "withdrawSaving"
  /\ last.caller \in whitelistedAccounts
  /\ last.id \notin DOMAIN savingsStorage
  /\ last.result.kind = "NotFound"
====
